---- MODULE Spec2Model ----
(***************************************************************************)
(* State-machine model of the FaceRegistration component                   *)
(* (src/src/components/FaceRegistration.tsx): the React state of one       *)
(* mounted instance, the getUserMedia and fetch calls it has in flight,    *)
(* the setTimeout timers it has scheduled, and the camera streams the      *)
(* platform has handed out.                                                *)
(***************************************************************************)
EXTENDS Integers, FiniteSets, Sequences, TLC

\* Total number of getUserMedia calls explored (continue click + retries).
MaxAcquire == 3
\* Total number of capture clicks explored.
MaxSubmissions == 2

\* useState<MediaStream | null>(null): the null handle.
NoStream == 0
\* Identities of the MediaStream objects the platform can hand out.
StreamIds == 1..MaxAcquire
\* face_id values the service can return.
FaceIds == {"abc123", "xyz"}

\* visitorInfo?: the prop was not passed (undefined).
Absent == [ undefined |-> TRUE ]
\* Values of the visitorName prop.
VisitorNames == {"Ann"}
\* Values of a passed visitorInfo prop; visitorType is any string, also ''.
VisitorInfos ==
    [ name : VisitorNames, company : {"", "Acme"}, visiting : {"Bo"},
      visitorType : {"", "regular", "service"} ]
\* No request has been sent yet.
NoBody == [ sent |-> FALSE ]

VARIABLES
    mounted,          \* the component instance exists (not yet unmounted)
    currentStep,      \* useState "consent" | "scanning" | "completed"
    isScanning,       \* useState boolean
    stream,           \* useState MediaStream | null
    hasPermission,    \* useState boolean | null : "null", "true", "false"
    consentChecked,   \* useState boolean
    scannedFaceId,    \* useState string
    closureStream,    \* value of `stream` seen by the closure calling stopCamera
    videoSrcObject,   \* srcObject of the rendered <video>, NoStream if none
    camPending,       \* getUserMedia promises not yet settled
    acquisitions,     \* getUserMedia calls issued so far
    fetchPending,     \* fetch('/api/scan-face') promises not yet settled
    submissions,      \* capture clicks handled so far
    timers,           \* setTimeout(onAutoCheckIn, 1000) timers not yet fired
    autoCheckInCalls, \* invocations of the onAutoCheckIn prop
    liveTracks,       \* streams handed out whose tracks have not been stopped
    stopCount,        \* per stream, how many times its tracks were stopped
    toast,            \* last sonner notification shown
    visitorInfo,      \* the visitorInfo prop, Absent when not passed
    visitorName,      \* the visitorName prop
    requestBody,      \* body of the last POST to /api/scan-face
    userClicks,       \* clicks handled on the continue, retry and capture buttons
    onFaceRegisteredCalls \* invocations of the onFaceRegistered prop

\* Everything but the count of handled clicks.
componentVars == << mounted, currentStep, isScanning, stream, hasPermission,
                    consentChecked, scannedFaceId, closureStream,
                    videoSrcObject, camPending, acquisitions, fetchPending,
                    submissions, timers, autoCheckInCalls, liveTracks,
                    stopCount, toast, visitorInfo, visitorName, requestBody,
                    onFaceRegisteredCalls >>

vars == << componentVars, userClicks >>

\* The component state that React keeps for the instance.
sessionState == << currentStep, isScanning, stream, hasPermission,
                   consentChecked, scannedFaceId >>

Init ==
    /\ mounted = TRUE
    /\ currentStep = "consent"
    /\ isScanning = FALSE
    /\ stream = NoStream
    /\ hasPermission = "null"
    /\ consentChecked = FALSE
    /\ scannedFaceId = ""
    /\ closureStream = NoStream
    /\ videoSrcObject = NoStream
    /\ camPending = 0
    /\ acquisitions = 0
    /\ fetchPending = 0
    /\ submissions = 0
    /\ timers = 0
    /\ autoCheckInCalls = 0
    /\ liveTracks = {}
    /\ stopCount = [s \in StreamIds |-> 0]
    /\ toast = "none"
    /\ visitorInfo \in VisitorInfos \cup {Absent}
    /\ visitorName \in VisitorNames
    /\ requestBody = NoBody
    /\ userClicks = 0
    /\ onFaceRegisteredCalls = 0

----------------------------------------------------------------------------
\* What is rendered.

\* if (hasPermission === false && currentStep === "scanning") return <retry screen>
RetryScreen == mounted /\ hasPermission = "false" /\ currentStep = "scanning"

\* {currentStep === "consent" && (...)} of the main return
ConsentScreen == mounted /\ ~RetryScreen /\ currentStep = "consent"

\* {currentStep === "scanning" && (...)} of the main return
ScanningScreen == mounted /\ ~RetryScreen /\ currentStep = "scanning"

\* {currentStep === "completed" && (...)} of the main return
CompletedScreen == mounted /\ ~RetryScreen /\ currentStep = "completed"

ContinueDisabled_Never == FALSE

\* disabled={!consentChecked}
ContinueDisabled == ~consentChecked

CaptureDisabled_IgnoresStream == isScanning

CaptureDisabled_IgnoresScanning == stream = NoStream

\* disabled={isScanning || !stream}
CaptureDisabled == isScanning \/ stream = NoStream

\* The continue button is rendered and enabled.
ContinueAvailable == ConsentScreen /\ ~ContinueDisabled

\* The capture button is rendered and enabled.
CaptureAvailable == ScanningScreen /\ ~CaptureDisabled

----------------------------------------------------------------------------
\* Camera.

\* startCamera up to its await: one more getUserMedia call is outstanding.
startCamera ==
    /\ acquisitions < MaxAcquire
    /\ acquisitions' = acquisitions + 1
    /\ camPending' = camPending + 1

stopCamera_KeepsHandle(s) ==
    IF s # NoStream
    THEN /\ liveTracks' = liveTracks \ {s}
         /\ stopCount' = [stopCount EXCEPT ![s] = @ + 1]
         /\ stream' = stream
    ELSE UNCHANGED << liveTracks, stopCount, stream >>

\* stopCamera as run by a closure that sees `s` as the value of `stream`.
stopCamera(s) ==
    IF s # NoStream
    THEN /\ liveTracks' = liveTracks \ {s}
         /\ stopCount' = [stopCount EXCEPT ![s] = @ + 1]
         /\ stream' = NoStream
    ELSE UNCHANGED << liveTracks, stopCount, stream >>

\* onCheckedChange={(checked) => setConsentChecked(checked as boolean)}
ToggleConsent ==
    /\ ConsentScreen
    /\ consentChecked' = ~consentChecked
    /\ UNCHANGED << mounted, currentStep, isScanning, stream, hasPermission,
                    scannedFaceId, closureStream, videoSrcObject, camPending,
                    acquisitions, fetchPending, submissions, timers,
                    autoCheckInCalls, liveTracks, stopCount, toast >>
    /\ UNCHANGED << visitorInfo, visitorName, requestBody, onFaceRegisteredCalls, userClicks >>

handleConsentAccepted ==
    IF ~consentChecked
    THEN UNCHANGED componentVars
    ELSE /\ currentStep' = "scanning"
         /\ startCamera
         /\ UNCHANGED << mounted, isScanning, stream, hasPermission,
                         consentChecked, scannedFaceId, closureStream,
                         videoSrcObject, fetchPending, submissions, timers,
                         autoCheckInCalls, liveTracks, stopCount, toast,
                         visitorInfo, visitorName, requestBody,
                         onFaceRegisteredCalls >>

\* Click on "Fortsätt till skanning".
ClickContinue ==
    /\ ContinueAvailable
    /\ handleConsentAccepted
    /\ userClicks' = userClicks + 1

\* Click on "Försök igen" of the retry screen: onClick={startCamera}.
ClickRetry ==
    /\ RetryScreen
    /\ startCamera
    /\ UNCHANGED << mounted, currentStep, isScanning, stream, hasPermission,
                    consentChecked, scannedFaceId, closureStream,
                    videoSrcObject, fetchPending, submissions, timers,
                    autoCheckInCalls, liveTracks, stopCount, toast >>
    /\ userClicks' = userClicks + 1
    /\ UNCHANGED << visitorInfo, visitorName, requestBody, onFaceRegisteredCalls >>

\* getUserMedia resolves: the rest of startCamera's try block runs.
\* The platform hands out a stream that was never handed out before.
CameraGranted ==
    /\ camPending > 0
    /\ camPending' = camPending - 1
    /\ \E mediaStream \in StreamIds :
          /\ stopCount[mediaStream] = 0
          /\ mediaStream \notin liveTracks
          /\ \A s \in StreamIds : s < mediaStream =>
                 (s \in liveTracks \/ stopCount[s] > 0)
          /\ liveTracks' = liveTracks \cup {mediaStream}
          /\ IF mounted
             THEN /\ stream' = mediaStream
                  /\ hasPermission' = "true"
                  /\ videoSrcObject' =
                        IF ScanningScreen THEN mediaStream ELSE NoStream
             ELSE UNCHANGED << stream, hasPermission, videoSrcObject >>
    /\ UNCHANGED << mounted, currentStep, isScanning, consentChecked,
                    scannedFaceId, closureStream, acquisitions, fetchPending,
                    submissions, timers, autoCheckInCalls, stopCount, toast >>
    /\ UNCHANGED << visitorInfo, visitorName, requestBody, onFaceRegisteredCalls, userClicks >>

CameraDenied_AutoRetry ==
    /\ camPending > 0
    /\ acquisitions < MaxAcquire
    /\ acquisitions' = acquisitions + 1
    /\ camPending' = camPending
    /\ IF mounted
       THEN /\ hasPermission' = "false"
            /\ videoSrcObject' =
                  IF currentStep = "scanning" THEN NoStream ELSE videoSrcObject
       ELSE UNCHANGED << hasPermission, videoSrcObject >>
    /\ toast' = "cameraError"
    /\ currentStep' = currentStep
    /\ UNCHANGED << mounted, isScanning, stream, consentChecked,
                    scannedFaceId, closureStream, fetchPending,
                    submissions, timers, autoCheckInCalls, liveTracks,
                    stopCount >>
    /\ UNCHANGED << visitorInfo, visitorName, requestBody, onFaceRegisteredCalls, userClicks >>

CameraDenied_BackToConsent ==
    /\ camPending > 0
    /\ camPending' = camPending - 1
    /\ acquisitions' = acquisitions
    /\ IF mounted
       THEN /\ hasPermission' = "false"
            /\ currentStep' = "consent"
            /\ videoSrcObject' = NoStream
       ELSE UNCHANGED << hasPermission, currentStep, videoSrcObject >>
    /\ toast' = "cameraError"
    /\ UNCHANGED << mounted, isScanning, stream, consentChecked,
                    scannedFaceId, closureStream, fetchPending,
                    submissions, timers, autoCheckInCalls, liveTracks,
                    stopCount >>
    /\ UNCHANGED << visitorInfo, visitorName, requestBody, onFaceRegisteredCalls, userClicks >>

\* getUserMedia rejects: startCamera's catch block runs.
CameraDenied ==
    /\ camPending > 0
    /\ camPending' = camPending - 1
    /\ IF mounted
       THEN /\ hasPermission' = "false"
            /\ videoSrcObject' =
                  IF currentStep = "scanning" THEN NoStream ELSE videoSrcObject
       ELSE UNCHANGED << hasPermission, videoSrcObject >>
    /\ toast' = "cameraError"
    /\ UNCHANGED << mounted, currentStep, isScanning, stream, consentChecked,
                    scannedFaceId, closureStream, acquisitions, fetchPending,
                    submissions, timers, autoCheckInCalls, liveTracks,
                    stopCount >>
    /\ UNCHANGED << visitorInfo, visitorName, requestBody, onFaceRegisteredCalls, userClicks >>

\* The cleanup returned by useEffect(() => () => stopCamera(), []).
Unmount ==
    /\ mounted
    /\ mounted' = FALSE
    /\ stopCamera(closureStream)
    /\ videoSrcObject' = NoStream
    /\ UNCHANGED << currentStep, isScanning, hasPermission, consentChecked,
                    scannedFaceId, closureStream, camPending, acquisitions,
                    fetchPending, submissions, timers, autoCheckInCalls,
                    toast >>
    /\ UNCHANGED << visitorInfo, visitorName, requestBody, onFaceRegisteredCalls, userClicks >>

----------------------------------------------------------------------------
\* Capture and submission.

\* canvas.toDataURL('image/jpeg'): a JPEG data URI of the current frame.
imageBase64 == "data:image/jpeg;base64"

requestPayload_TypeFallback(info, name) ==
    [ image |-> imageBase64,
      visitorInfo |->
          IF info # Absent
          THEN [ info EXCEPT !.visitorType =
                     IF @ = "" THEN "regular" ELSE @ ]
          ELSE [ name |-> name, company |-> "", visiting |-> "",
                 visitorType |-> "regular" ] ]

\* The object given to JSON.stringify: `info || {...}` takes the fallback
\* only when info is falsy, and an object is never falsy.
requestPayload(info, name) ==
    [ image |-> imageBase64,
      visitorInfo |->
          IF info # Absent
          THEN info
          ELSE [ name |-> name, company |-> "", visiting |-> "",
                 visitorType |-> "regular" ] ]

\* Click on "Skanna ansikte": captureAndScanFace up to await fetch(...).
ClickCapture ==
    /\ CaptureAvailable
    /\ submissions < MaxSubmissions
    /\ submissions' = submissions + 1
    /\ isScanning' = TRUE
    /\ fetchPending' = fetchPending + 1
    /\ UNCHANGED << mounted, currentStep, stream, hasPermission,
                    consentChecked, scannedFaceId, closureStream,
                    videoSrcObject, camPending, acquisitions, timers,
                    autoCheckInCalls, liveTracks, stopCount, toast >>
    /\ userClicks' = userClicks + 1
    /\ requestBody' = requestPayload(visitorInfo, visitorName)
    /\ UNCHANGED << visitorInfo, visitorName, onFaceRegisteredCalls >>

\* Click on "Skanna ansikte" where the frame capture throws before the
\* fetch is issued: catch and finally run in the same event handler.
CaptureThrows ==
    /\ CaptureAvailable
    /\ submissions < MaxSubmissions
    /\ submissions' = submissions + 1
    /\ isScanning' = FALSE
    /\ toast' = "scanFailed"
    /\ UNCHANGED << mounted, currentStep, stream, hasPermission,
                    consentChecked, scannedFaceId, closureStream,
                    videoSrcObject, camPending, acquisitions, fetchPending,
                    timers, autoCheckInCalls, liveTracks, stopCount >>
    /\ userClicks' = userClicks + 1
    /\ UNCHANGED << visitorInfo, visitorName, requestBody, onFaceRegisteredCalls >>

\* finally { setIsScanning(false) }: no effect on an unmounted instance.
finallyBlock == isScanning' = IF mounted THEN FALSE ELSE isScanning

FetchSuccess_CallsHook(face_id) ==
    /\ fetchPending > 0
    /\ fetchPending' = fetchPending - 1
    /\ scannedFaceId' = IF mounted THEN face_id ELSE scannedFaceId
    /\ onFaceRegisteredCalls' = onFaceRegisteredCalls + 1
    /\ toast' = "saved"
    /\ timers' = timers + 1
    /\ finallyBlock
    /\ UNCHANGED << mounted, currentStep, stream, hasPermission,
                    consentChecked, closureStream, videoSrcObject, camPending,
                    acquisitions, submissions, autoCheckInCalls, liveTracks,
                    stopCount >>
    /\ UNCHANGED << visitorInfo, visitorName, requestBody, userClicks >>

\* The response arrives with data.status === 'success' and data.face_id.
FetchSuccess(face_id) ==
    /\ fetchPending > 0
    /\ fetchPending' = fetchPending - 1
    /\ scannedFaceId' = IF mounted THEN face_id ELSE scannedFaceId
    /\ toast' = "saved"
    /\ timers' = timers + 1
    /\ finallyBlock
    /\ UNCHANGED << mounted, currentStep, stream, hasPermission,
                    consentChecked, closureStream, videoSrcObject, camPending,
                    acquisitions, submissions, autoCheckInCalls, liveTracks,
                    stopCount >>
    /\ UNCHANGED << visitorInfo, visitorName, requestBody, onFaceRegisteredCalls, userClicks >>

\* The response arrives with any other status.
FetchNonSuccess ==
    /\ fetchPending > 0
    /\ fetchPending' = fetchPending - 1
    /\ toast' = "saveFailed"
    /\ finallyBlock
    /\ UNCHANGED << mounted, currentStep, stream, hasPermission,
                    consentChecked, scannedFaceId, closureStream,
                    videoSrcObject, camPending, acquisitions, submissions,
                    timers, autoCheckInCalls, liveTracks, stopCount >>
    /\ UNCHANGED << visitorInfo, visitorName, requestBody, onFaceRegisteredCalls, userClicks >>

FetchThrows_NoFinally ==
    /\ fetchPending > 0
    /\ fetchPending' = fetchPending - 1
    /\ toast' = "scanFailed"
    /\ UNCHANGED << mounted, currentStep, isScanning, stream, hasPermission,
                    consentChecked, scannedFaceId, closureStream,
                    videoSrcObject, camPending, acquisitions, submissions,
                    timers, autoCheckInCalls, liveTracks, stopCount >>
    /\ UNCHANGED << visitorInfo, visitorName, requestBody, onFaceRegisteredCalls, userClicks >>

\* fetch rejects or response.json() throws: the catch block runs.
FetchThrows ==
    /\ fetchPending > 0
    /\ fetchPending' = fetchPending - 1
    /\ toast' = "scanFailed"
    /\ finallyBlock
    /\ UNCHANGED << mounted, currentStep, stream, hasPermission,
                    consentChecked, scannedFaceId, closureStream,
                    videoSrcObject, camPending, acquisitions, submissions,
                    timers, autoCheckInCalls, liveTracks, stopCount >>
    /\ UNCHANGED << visitorInfo, visitorName, requestBody, onFaceRegisteredCalls, userClicks >>

\* A timer set by setTimeout(() => { onAutoCheckIn(); }, 1000) expires.
TimerFires ==
    /\ timers > 0
    /\ timers' = timers - 1
    /\ autoCheckInCalls' = autoCheckInCalls + 1
    /\ UNCHANGED << mounted, currentStep, isScanning, stream, hasPermission,
                    consentChecked, scannedFaceId, closureStream,
                    videoSrcObject, camPending, acquisitions, fetchPending,
                    submissions, liveTracks, stopCount, toast >>
    /\ UNCHANGED << visitorInfo, visitorName, requestBody, onFaceRegisteredCalls, userClicks >>

\* The Enrollment Service call settles, one way or another.
FetchSettles ==
    \/ \E face_id \in FaceIds : FetchSuccess(face_id)
    \/ FetchNonSuccess
    \/ FetchThrows

Next ==
    \/ ToggleConsent
    \/ ClickContinue
    \/ ClickRetry
    \/ CameraGranted
    \/ CameraDenied
    \/ Unmount
    \/ ClickCapture
    \/ CaptureThrows
    \/ \E face_id \in FaceIds : FetchSuccess(face_id)
    \/ FetchNonSuccess
    \/ FetchThrows
    \/ TimerFires

Spec == Init /\ [][Next]_vars

\* The Enrollment Service call eventually resolves or rejects.
LiveSpec == Spec /\ WF_vars(FetchSettles)

----------------------------------------------------------------------------
\* stopCamera on its own: a session that holds the stream it was granted
\* last, in which stopCamera is invoked again and again.

\* Invocations of stopCamera explored per stream.
MaxStopCalls == 2

\* A session after `granted` camera grants and no pending call: it holds the
\* last stream granted, and the calling closure is the current render's.
ReleaseInit ==
    /\ mounted = TRUE
    /\ \E granted \in 0..MaxAcquire :
          /\ liveTracks = 1..granted
          /\ stream = granted
          /\ acquisitions = granted
          /\ IF granted = 0
             THEN \/ /\ currentStep = "consent"
                     /\ hasPermission = "null"
                     /\ consentChecked \in BOOLEAN
                  \/ /\ currentStep = "scanning"
                     /\ hasPermission = "false"
                     /\ consentChecked = TRUE
             ELSE /\ currentStep = "scanning"
                  /\ hasPermission \in {"true", "false"}
                  /\ consentChecked = TRUE
          /\ isScanning \in (IF granted = 0 THEN {FALSE} ELSE BOOLEAN)
          /\ videoSrcObject \in {NoStream, stream}
    /\ closureStream = stream
    /\ visitorInfo \in VisitorInfos \cup {Absent}
    /\ visitorName \in VisitorNames
    /\ fetchPending = (IF isScanning THEN 1 ELSE 0)
    /\ submissions = fetchPending
    /\ userClicks = acquisitions + submissions
    /\ requestBody =
          IF isScanning THEN requestPayload(visitorInfo, visitorName)
          ELSE NoBody
    /\ scannedFaceId = ""
    /\ camPending = 0
    /\ timers = 0
    /\ autoCheckInCalls = 0
    /\ stopCount = [s \in StreamIds |-> 0]
    /\ toast = "none"
    /\ onFaceRegisteredCalls = 0

\* stopCamera is invoked; the next invocation comes from the same closure or
\* from the closure of the render that follows setStream(null).
Release ==
    /\ mounted
    /\ closureStream # NoStream => stopCount[closureStream] < MaxStopCalls
    /\ stopCamera(closureStream)
    /\ closureStream' \in {closureStream, stream'}
    /\ UNCHANGED << mounted, currentStep, isScanning, hasPermission,
                    consentChecked, scannedFaceId, videoSrcObject, camPending,
                    acquisitions, fetchPending, submissions, timers,
                    autoCheckInCalls, toast, visitorInfo, visitorName,
                    requestBody, userClicks, onFaceRegisteredCalls >>

ReleaseSpec == ReleaseInit /\ [][Release]_vars

----------------------------------------------------------------------------
\* Observations of single steps, used by the properties below.

\* This step handles a response with status "success".
SuccessHandled == fetchPending' = fetchPending - 1 /\ toast' = "saved"

\* This step handles a non-success response or a thrown transport error.
FailureHandled ==
    fetchPending' = fetchPending - 1 /\ toast' \in {"saveFailed", "scanFailed"}

\* This step issues a submission to the Enrollment Service.
SubmissionIssued == fetchPending' = fetchPending + 1

----------------------------------------------------------------------------
\* C1: whenever a submission receives a response with status "success" while
\* the session is in step scanning, the step becomes "completed" and the
\* returned face_id is stored as the enrollment identifier.
C1_SuccessCompletes ==
    [][ (mounted /\ currentStep = "scanning" /\ SuccessHandled)
          => (currentStep' = "completed" /\ scannedFaceId' \in FaceIds) ]_vars

\* C2: onAutoCheckIn is invoked at most once per session, whatever the user
\* does after a successful enrollment, and never before a capture was
\* submitted.
C2_AutoCheckInOnce ==
    /\ autoCheckInCalls <= 1
    /\ autoCheckInCalls > 0 => submissions > 0

\* C3: when the component is torn down while it holds a camera stream, the
\* unmount cleanup leaves no track of that stream live and has stopped the
\* stream exactly once.
C3_UnmountStopsStream ==
    [][ (mounted /\ ~mounted' /\ stream # NoStream)
          => (stream \notin liveTracks' /\ stopCount'[stream] = 1) ]_vars

\* C4: while the session exists, the camera stream handle is non-null only
\* if the step is scanning and permission is granted.
C4_StreamOnlyWhileGranted ==
    (mounted /\ stream # NoStream)
        => (currentStep = "scanning" /\ hasPermission = "true")

\* C5: the continue button is enabled iff consent is checked, a step that
\* leaves the consent step or issues a camera request is taken with consent
\* checked, and so every state past the consent step, or with a camera
\* request issued, has consent checked.
C5_ConsentGates ==
    /\ [](ConsentScreen => (ContinueAvailable <=> consentChecked))
    /\ []((currentStep # "consent" \/ acquisitions > 0) => consentChecked)
    /\ [][ (currentStep' # currentStep \/ acquisitions' > acquisitions)
             => consentChecked ]_vars

C5_Witness ==
    /\ mounted
    /\ currentStep = "scanning"
    /\ acquisitions > 0
    /\ consentChecked

\* C6: while permission is unknown or denied the capture action is not
\* available, and a step that issues a submission is taken with permission
\* granted.
C6_CaptureNeedsPermission ==
    /\ [](hasPermission # "true" => ~CaptureAvailable)
    /\ [][ (SubmissionIssued \/ submissions' > submissions)
             => hasPermission = "true" ]_vars

C6_Witness ==
    /\ mounted
    /\ currentStep = "scanning"
    /\ hasPermission = "false"
    /\ stream # NoStream
    /\ ~isScanning
    /\ submissions > 0
    /\ submissions < MaxSubmissions

\* C7: at most one submission is outstanding at any time, and while one is
\* outstanding in a live session isScanning is true and the capture action
\* is not available.
C7_OneSubmissionInFlight ==
    /\ fetchPending <= 1
    /\ (mounted /\ fetchPending = 1) => (isScanning /\ ~CaptureAvailable)

C7_Witness ==
    /\ ScanningScreen
    /\ fetchPending = 1
    /\ stream # NoStream
    /\ submissions < MaxSubmissions

\* C8: when a submission of a live session ends with a non-success status or
\* a thrown error, the step stays scanning, isScanning is false, the stored
\* enrollment identifier and the scheduled timers are unchanged, and the
\* capture action is available again.
C8_FailureLeavesRetryable ==
    [][ (mounted /\ FailureHandled)
          => /\ currentStep' = "scanning"
             /\ isScanning' = FALSE
             /\ scannedFaceId' = scannedFaceId
             /\ timers' = timers
             /\ autoCheckInCalls' = autoCheckInCalls
             /\ CaptureAvailable' ]_vars

\* C9: after the session is disposed no step changes the session state or
\* invokes onAutoCheckIn.
C9_NoEffectAfterUnmount ==
    [][ ~mounted
          => /\ sessionState' = sessionState
             /\ autoCheckInCalls' = autoCheckInCalls ]_vars

\* C10: in a session that stays open, every capture that sets isScanning to
\* true is eventually followed by isScanning = FALSE, given that the
\* Enrollment Service call eventually resolves or rejects.
C10_ScanningEventuallyResets ==
    (mounted /\ isScanning) ~> (~isScanning \/ ~mounted)

C10_Witness ==
    /\ mounted
    /\ submissions > 0
    /\ fetchPending = 0
    /\ ~isScanning
    /\ toast = "scanFailed"

----------------------------------------------------------------------------
\* This step handles a rejected getUserMedia call.
DenialHandled ==
    camPending' = camPending - 1 /\ liveTracks' = liveTracks
        /\ toast' = "cameraError"

\* This step handles a resolved getUserMedia call.
GrantHandled == camPending' = camPending - 1 /\ liveTracks' # liveTracks

\* C11: when a camera request of a live session is denied, the step is
\* scanning, permission is denied, no stream is held, the retry screen is
\* shown and capture is unavailable; when a retry is granted, permission is
\* granted, a stream is held and capture is available.
C11_DenialThenRetry ==
    [][ /\ (mounted /\ DenialHandled)
            => /\ currentStep' = "scanning"
               /\ hasPermission' = "false"
               /\ stream' = NoStream
               /\ RetryScreen'
               /\ ~CaptureAvailable'
        /\ (mounted /\ hasPermission = "false" /\ GrantHandled)
            => /\ hasPermission' = "true"
               /\ stream' # NoStream
               /\ CaptureAvailable' ]_vars

C13_NoAutomaticRetry ==
    /\ [](acquisitions + submissions = userClicks)
    /\ [][ (acquisitions' # acquisitions \/ submissions' # submissions
              \/ camPending' > camPending \/ fetchPending' > fetchPending)
             => /\ userClicks' = userClicks + 1
                /\ acquisitions' + submissions'
                      = acquisitions + submissions + 1 ]_vars
    /\ [][ (DenialHandled \/ FailureHandled)
             => /\ acquisitions' = acquisitions
                /\ submissions' = submissions
                /\ camPending' <= camPending
                /\ fetchPending' <= fetchPending ]_vars

C13_Witness ==
    /\ mounted
    /\ hasPermission = "false"
    /\ toast = "cameraError"
    /\ camPending = 0
    /\ fetchPending = 0
    /\ acquisitions = 2
    /\ acquisitions < MaxAcquire
    /\ userClicks = 2

\* No visitor type was supplied: no visitorInfo, or one with an empty type.
NoVisitorTypeSupplied ==
    visitorInfo = Absent \/ visitorInfo.visitorType = ""

\* C14: the submitted visitorInfo has visitorType "regular" whenever no
\* visitor type was supplied, and otherwise equals the supplied visitorInfo.
C14_RegularWhenNoType ==
    requestBody # NoBody =>
        IF NoVisitorTypeSupplied
        THEN requestBody.visitorInfo.visitorType = "regular"
        ELSE requestBody.visitorInfo = visitorInfo

\* C14 as amended: when no visitorInfo is passed, the submitted visitorInfo
\* is { name: visitorName, company: '', visiting: '', visitorType:
\* 'regular' }; when one is passed it is submitted unchanged, an empty
\* visitorType included.
C14_FallbackOnlyWhenAbsent ==
    requestBody # NoBody =>
        /\ requestBody.image = imageBase64
        /\ requestBody.visitorInfo =
              IF visitorInfo = Absent
              THEN [ name |-> visitorName, company |-> "", visiting |-> "",
                     visitorType |-> "regular" ]
              ELSE visitorInfo

C14_Witness ==
    /\ requestBody # NoBody
    /\ visitorInfo # Absent
    /\ visitorInfo.visitorType = ""
    /\ requestBody.visitorInfo.visitorType = ""

\* C15: a stream granted after the component was unmounted is released by
\* the step that receives it (nothing runs for the instance afterwards), so
\* it adds no live track.
C15_LateGrantReleased ==
    [][ (~mounted /\ GrantHandled) => liveTracks' = liveTracks ]_vars

\* C16: a live session never has more than one acquired stream whose tracks
\* are live.
C16_OneLiveStream ==
    mounted => Cardinality(liveTracks) <= 1

\* Position of a step in consent -> scanning -> completed.
StepRank(step) ==
    CASE step = "consent" -> 0
      [] step = "scanning" -> 1
      [] step = "completed" -> 2

\* C17: the step never moves back, and it changes only by a continue click
\* with consent checked; denials, retries, responses and captures leave it.
C17_StepOnlyForward ==
    [][ /\ StepRank(currentStep') >= StepRank(currentStep)
        /\ currentStep' # currentStep
             => /\ currentStep = "consent"
                /\ currentStep' = "scanning"
                /\ consentChecked
                /\ acquisitions' = acquisitions + 1 ]_vars

C17_Witness ==
    /\ mounted
    /\ currentStep = "scanning"
    /\ hasPermission = "false"
    /\ acquisitions >= 2
    /\ submissions >= 2
    /\ toast = "saveFailed"

\* C18: onFaceRegistered is never invoked; a success response stores the
\* face_id and schedules onAutoCheckIn only.
C18_HookNeverInvoked ==
    /\ [](onFaceRegisteredCalls = 0)
    /\ [][ SuccessHandled
             => /\ timers' = timers + 1
                /\ onFaceRegisteredCalls' = onFaceRegisteredCalls ]_vars

C18_Witness ==
    /\ scannedFaceId \in FaceIds
    /\ autoCheckInCalls > 0
    /\ onFaceRegisteredCalls = 0

====
